---- MODULE Spec2Model ----
(***************************************************************************)
(* Model of kpDemos/authenticationByNFT: the IPFS caching proxy            *)
(* (src/unnamed/part_000), the key-retrieval route (src/api/               *)
(* getEncryptionKey), the producer script encryptVideo and the browser     *)
(* consumer flow loadAndDisplay (src/encrypt.mjs,                          *)
(* src/decryptionFunction.js).                                             *)
(*                                                                         *)
(* Strings that the code builds or takes apart (URLs, query strings) are   *)
(* sequences of string tokens; byte buffers are sequences of integers.     *)
(***************************************************************************)
EXTENDS Integers, Sequences, FiniteSets, TLC

VARIABLES
  clock,      \* what Date.now() returns, in milliseconds
  ticks,      \* how many times the clock has advanced (bounds the model)
  cache,      \* part_000 `cache`: cid |-> [data, contentType, timestamp]
  writer,     \* history: cid |-> the invocation that wrote its cache entry
  req,        \* the proxy handler's invocations, by invocation number
  pinned,     \* what the IPFS gateway holds, by content identifier: the
              \* bytes and the Content-Type it serves them with ("": none)
  files,      \* the producer's output files, encryptedVideo.bin and
              \* encryptionKey.json, and the plaintext, key and nonce of the run
  env,        \* process.env of the key route: ENCRYPTION_KEY, ENCRYPTION_IV
  click,      \* the click handler: its position, button.disabled, clicks so far
  flow,       \* the loadAndDisplay calls, by call number
  ui          \* message.textContent, videoPlayer.src and the two displays

proxyVars == <<cache, writer, req>>
clientVars == <<click, flow, ui>>
deployVars == <<pinned, files, env>>
vars == <<clock, ticks, cache, writer, req, pinned, files, env, click, flow, ui>>

-----------------------------------------------------------------------------
(* Bounds of the model *)

MaxReq == 3
MaxTicks == 2
MaxClicks == 2
MaxRuns == 2
MaxPageTicks == 1

-----------------------------------------------------------------------------
(* Program constants *)

\* part_000 line 6
CACHE_TTL == 5 * 60 * 1000

\* encrypt.mjs line 85
CID == "bafybeihxrk3wabligbejuvuhgyvxn7n2z6qjjmu72zv7ode4ldw3vwhnla"

\* a second content identifier, for requests of other clients of the proxy
OTHER_CID == "bafyOther"

ReqIds == 1..MaxReq
FlowIds == 1..MaxClicks

\* The clock advances by a millisecond or by just under the TTL, so that
\* differences of TTL - 1, TTL and TTL + 1 between two instants all occur.
TickSteps == {1, CACHE_TTL - 1}

-----------------------------------------------------------------------------
(* URLs and query strings *)

\* The tokens of a token sequence from position i on.
Drop(s, i) == SubSeq(s, i, Len(s))

\* The position of the first token t of s at or after position i, or 0.
RECURSIVE IndexFrom(_, _, _)
IndexFrom(s, t, i) ==
  IF i > Len(s) THEN 0
  ELSE IF s[i] = t THEN i
  ELSE IndexFrom(s, t, i + 1)

\* The query string of a URL: what follows its first "?".
QueryString(url) ==
  LET q == IndexFrom(url, "?", 1)
  IN IF q = 0 THEN << >> ELSE Drop(url, q + 1)

\* The "name=value" pairs of a query string, split at "&".
RECURSIVE SplitPairs(_)
SplitPairs(qs) ==
  IF qs = << >> THEN << >>
  ELSE LET a == IndexFrom(qs, "&", 1)
       IN IF a = 0 THEN <<qs>>
          ELSE <<SubSeq(qs, 1, a - 1)>> \o SplitPairs(Drop(qs, a + 1))

\* A pair's name is what precedes its first "=", its value what follows.
PairName(p) ==
  LET e == IndexFrom(p, "=", 1)
  IN IF e = 0 THEN p ELSE SubSeq(p, 1, e - 1)

PairValue(p) ==
  LET e == IndexFrom(p, "=", 1)
  IN IF e = 0 THEN << >> ELSE Drop(p, e + 1)

\* req.query: whether parameter `name` is present, and its (first) value.
HasParam(url, name) ==
  \E i \in 1..Len(SplitPairs(QueryString(url))) :
    PairName(SplitPairs(QueryString(url))[i]) = <<name>>

ParamValue(url, name) ==
  LET ps == SplitPairs(QueryString(url))
      i == CHOOSE j \in 1..Len(ps) :
             /\ PairName(ps[j]) = <<name>>
             /\ \A k \in 1..(j - 1) : PairName(ps[k]) # <<name>>
  IN PairValue(ps[i])

\* const { cid } = req.query; a missing parameter and "" are both falsy.
QueryCid(url) == IF HasParam(url, "cid") THEN ParamValue(url, "cid") ELSE << >>

\* The path of the gateway URL `https://gateway.pinata.cloud/ipfs/${cid}`:
\* the gateway resolves what precedes the first "?" of the interpolated cid.
GatewayPath(cid) ==
  LET q == IndexFrom(cid, "?", 1)
  IN IF q = 0 THEN cid ELSE SubSeq(cid, 1, q - 1)

-----------------------------------------------------------------------------
(* Bytes, JSON arrays and AES-GCM *)

\* encrypt.mjs line 42: new Uint8Array(12)
IV_LEN == 12

\* encrypt.mjs line 33: length: 256 (bits)
KEY_BITS == 256

KEY_LEN == KEY_BITS \div 8

\* WebCrypto's default AES-GCM tag length, 128 bits
TAG_LEN == 16

Byte == 0..255

\* TypedArray.prototype.slice(begin) and slice(begin, end), 0-based, clamped.
SliceFrom(bytes, begin) == SubSeq(bytes, begin + 1, Len(bytes))

Slice(bytes, begin, end) ==
  SubSeq(bytes, begin + 1, IF end < Len(bytes) THEN end ELSE Len(bytes))

\* The decimal text of each byte value.
ByteText == [n \in Byte |-> ToString(n)]

\* JSON.stringify of an array of bytes, as tokens: "[", "1", ",", "2", "]".
RECURSIVE JsonItems(_)
JsonItems(arr) ==
  IF arr = << >> THEN << >>
  ELSE IF Len(arr) = 1 THEN <<ByteText[arr[1]]>>
  ELSE <<ByteText[arr[1]], ",">> \o JsonItems(Tail(arr))

JsonStringify(arr) == <<"[">> \o JsonItems(arr) \o <<"]">>

\* JSON.parse of such a text, then new Uint8Array(...) of the array.
JsonNumber(tok) == CHOOSE n \in Byte : ByteText[n] = tok

JsonParse(text) ==
  [i \in 1..((Len(text) - 1) \div 2) |-> JsonNumber(text[2 * i])]

\* AES-GCM, abstracted: the keystream byte at position i depends on the key
\* and the nonce, and the tag is a checksum over key, nonce and ciphertext
\* that separates the keys, nonces and messages of this model.
Keystream(key, iv, i) ==
  (key[((i - 1) % Len(key)) + 1] + iv[((i - 1) % Len(iv)) + 1] + i) % 256

RECURSIVE ByteSum(_)
ByteSum(bytes) ==
  IF bytes = << >> THEN 0 ELSE (Head(bytes) + ByteSum(Tail(bytes))) % 256

GcmTag(key, iv, body) ==
  [j \in 1..TAG_LEN |->
     (key[((j - 1) % Len(key)) + 1] + 3 * ByteSum(key)
        + 5 * iv[((j - 1) % Len(iv)) + 1] + 7 * ByteSum(iv)
        + j * ByteSum(body) + 11 * Len(body)) % 256]

\* subtle.encrypt({name: "AES-GCM", iv}, key, plaintext): ciphertext || tag.
GcmEncrypt(key, iv, plain) ==
  LET body == [i \in 1..Len(plain) |-> (plain[i] + Keystream(key, iv, i)) % 256]
  IN body \o GcmTag(key, iv, body)

\* subtle.decrypt: [ok, plain]; not ok (OperationError) when the data is
\* shorter than a tag or the tag does not verify.
GcmDecrypt(key, iv, data) ==
  IF Len(data) < TAG_LEN THEN [ok |-> FALSE, plain |-> << >>]
  ELSE LET body == SubSeq(data, 1, Len(data) - TAG_LEN)
           tag == SubSeq(data, Len(data) - TAG_LEN + 1, Len(data))
       IN IF tag # GcmTag(key, iv, body) THEN [ok |-> FALSE, plain |-> << >>]
          ELSE [ok |-> TRUE,
                plain |-> [i \in 1..Len(body) |->
                             (body[i] - Keystream(key, iv, i)) % 256]]

\* subtle.importKey("raw", rawKey, {name: "AES-GCM"}, ...) accepts 128-, 192-
\* and 256-bit keys and rejects any other length.
ImportKeyOk(rawKey) == Len(rawKey) \in {16, 24, 32}

\* The keys, nonces and plaintexts of the model.  generateKey and
\* getRandomValues give values that no earlier call gave: the n-th run of the
\* producer gets GeneratedKey(n) and GeneratedIv(n).  OtherKey and OtherIv
\* are values that no run generates.
KeyOf(b) == [i \in 1..KEY_LEN |-> IF i = 1 THEN b ELSE 7]
IvOf(b) == [i \in 1..IV_LEN |-> IF i = IV_LEN THEN b ELSE 1]
\* Mutant: one key for every run.
GeneratedKeyFixed(n) == KeyOf(200)

GeneratedKey(n) == KeyOf(200 + n)
GeneratedIv(n) == IvOf(n)
OtherKey == KeyOf(9)
OtherIv == IvOf(100)
Plaintexts == {<<72, 69>>, <<255>>}

\* Mutant: the nonce is not prepended to the ciphertext.
EnvelopeWithoutIv(iv, encrypted) == encrypted

\* encryptVideo, encrypt.mjs lines 21-69: [bin, json], the contents of
\* encryptedVideo.bin and encryptionKey.json, for the file's bytes, the
\* generated key and the random nonce.
EnvelopeOf(iv, encrypted) ==
  [i \in 1..(Len(iv) + Len(encrypted)) |->
     IF i <= Len(iv) THEN iv[i] ELSE encrypted[i - Len(iv)]]

\* Mutant: the key file gets a nonce of its own.
EncryptVideoOtherIv(plain, key, iv) ==
  [bin |-> EnvelopeOf(iv, GcmEncrypt(key, iv, plain)),
   json |-> [key |-> JsonStringify(key), iv |-> JsonStringify(OtherIv)]]

EncryptVideo(plain, key, iv) ==
  [bin |-> EnvelopeOf(iv, GcmEncrypt(key, iv, plain)),
   json |-> [key |-> JsonStringify(key), iv |-> JsonStringify(iv)]]

\* Mutant: only the key is checked.
KeyHandlerKeyOnly(encryptionKey, encryptionIV) ==
  IF encryptionKey = << >>
  THEN [status |-> 500, error |-> "Encryption key not configured.",
        key |-> << >>, iv |-> << >>]
  ELSE [status |-> 200, error |-> "",
        key |-> encryptionKey, iv |-> encryptionIV]

\* The key route, src/api/getEncryptionKey lines 11-28; an unset or empty
\* environment variable is << >>.
KeyHandler(encryptionKey, encryptionIV) ==
  IF encryptionKey = << >> \/ encryptionIV = << >>
  THEN [status |-> 500, error |-> "Encryption key not configured.",
        key |-> << >>, iv |-> << >>]
  ELSE [status |-> 200, error |-> "",
        key |-> JsonStringify(JsonParse(encryptionKey)),
        iv |-> JsonStringify(JsonParse(encryptionIV))]

-----------------------------------------------------------------------------
(* The proxy handler, part_000 *)

NoRes == [status |-> 0, json |-> "", data |-> << >>, headers |-> {}]

\* An invocation that has not started.  Beside the handler's locals (cid, now,
\* the gateway's status and Content-Type) the record keeps what the
\* invocation did: whether it answered from the cache, how many gateway
\* requests it issued, its response, which invocations had responded when it
\* started, and the timestamp and writer of the entry it found (-1, 0: none).
IdleReq ==
  [pc |-> "idle", cid |-> << >>, now |-> 0, hit |-> FALSE,
   upstream |-> 0, upStatus |-> 0, ctype |-> "", res |-> NoRes,
   preds |-> {}, seenTs |-> -1, seenWriter |-> 0]

CorsHeader == <<"Access-Control-Allow-Origin", "*">>

\* contentType || "application/octet-stream"
ContentTypeOrDefault(ct) == IF ct = "" THEN "application/octet-stream" ELSE ct

\* res.status(s).json({ error: msg })
JsonError(s, msg) ==
  [status |-> s, json |-> msg, data |-> << >>, headers |-> {}]

\* setHeader(CORS); setHeader(Content-Type); res.status(200).send(data)
SendData(data, ct) ==
  [status |-> 200, json |-> "", data |-> data,
   headers |-> {CorsHeader, <<"Content-Type", ContentTypeOrDefault(ct)>>}]

\* Mutant: the handler does not check the cid.
MissingCidNever(cid) == FALSE

\* !cid
MissingCid(cid) == cid = << >>

\* Mutant: the age is compared with the TTL in seconds.
FreshSeconds(c, cid, now) ==
  /\ cid \in DOMAIN c
  /\ now - c[cid].timestamp < CACHE_TTL \div 1000

\* Mutant: an entry that is exactly CACHE_TTL old still counts as fresh.
FreshInclusive(c, cid, now) ==
  /\ cid \in DOMAIN c
  /\ now - c[cid].timestamp <= CACHE_TTL

\* cache[cid] && (now - cache[cid].timestamp < CACHE_TTL)
Fresh(c, cid, now) ==
  /\ cid \in DOMAIN c
  /\ now - c[cid].timestamp < CACHE_TTL

\* Mutant: the Content-Type is not stored.
CachePutNoType(c, cid, data, ct, ts) ==
  [k \in DOMAIN c \cup {cid} |->
     IF k = cid THEN [data |-> data, contentType |-> "", timestamp |-> ts]
     ELSE c[k]]

\* cache[cid] = { data, contentType, timestamp }
CachePut(c, cid, data, ct, ts) ==
  [k \in DOMAIN c \cup {cid} |->
     IF k = cid THEN [data |-> data, contentType |-> ct, timestamp |-> ts]
     ELSE c[k]]

\* response.ok
StatusOk(status) == 200 <= status /\ status <= 299

\* Mutant: an invocation that starts while another awaits the gateway waits
\* for it and is never resumed.
HandlerStartBlocking(r, url) ==
  /\ req[r].pc = "idle"
  /\ \A q \in 1..(r - 1) : req[q].pc # "idle"
  /\ req' = [req EXCEPT ![r] =
               [req[r] EXCEPT
                  !.cid = QueryCid(url), !.now = clock,
                  !.preds = {q \in ReqIds : req[q].pc = "done"},
                  !.upstream = 1,
                  !.pc = IF \E q \in ReqIds :
                               req[q].pc \in {"awaitFetch", "awaitBody"}
                         THEN "blocked" ELSE "awaitFetch"]]
  /\ UNCHANGED <<clock, ticks, cache, writer, deployVars>>

\* Lines 8-33: from the entry of the handler to its first await.
HandlerStart(r, url) ==
  /\ req[r].pc = "idle"
  /\ \A q \in 1..(r - 1) : req[q].pc # "idle"
  /\ LET cid == QueryCid(url)
         base == [req[r] EXCEPT !.cid = cid, !.now = clock,
                    !.preds = {q \in ReqIds : req[q].pc = "done"},
                    !.seenTs = IF cid \in DOMAIN cache
                               THEN cache[cid].timestamp ELSE -1,
                    !.seenWriter = IF cid \in DOMAIN writer
                                   THEN writer[cid] ELSE 0]
     IN \/ /\ MissingCid(cid)
           /\ req' = [req EXCEPT ![r] =
                        [base EXCEPT !.pc = "done",
                                     !.res = JsonError(400, "Missing CID")]]
        \/ /\ ~MissingCid(cid)
           /\ Fresh(cache, cid, clock)
           /\ req' = [req EXCEPT ![r] =
                        [base EXCEPT !.pc = "done", !.hit = TRUE,
                           !.res = SendData(cache[cid].data,
                                            cache[cid].contentType)]]
        \/ /\ ~MissingCid(cid)
           /\ ~Fresh(cache, cid, clock)
           /\ req' = [req EXCEPT ![r] =
                        [base EXCEPT !.pc = "awaitFetch", !.upstream = 1]]
  /\ UNCHANGED <<clock, ticks, cache, writer, deployVars>>

\* Line 33 rejects: the catch of lines 58-60.
FetchRejects(r) ==
  /\ req[r].pc = "awaitFetch"
  /\ req' = [req EXCEPT ![r].pc = "done",
                        ![r].res = JsonError(500, "fetch failed")]
  /\ UNCHANGED <<clock, ticks, cache, writer, deployVars>>

\* Mutant: the failure is cached too.
FetchNotOkCached(r, status) ==
  /\ req[r].pc = "awaitFetch"
  /\ ~StatusOk(status)
  /\ req' = [req EXCEPT ![r].pc = "done", ![r].upStatus = status,
                        ![r].res = JsonError(status,
                                             "Failed to fetch IPFS content")]
  /\ cache' = CachePut(cache, req[r].cid, << >>, "", req[r].now)
  /\ UNCHANGED <<clock, ticks, writer, deployVars>>

\* Mutant: every gateway failure is reported as 502.
FetchNotOkAs502(r, status) ==
  /\ req[r].pc = "awaitFetch"
  /\ ~StatusOk(status)
  /\ req' = [req EXCEPT ![r].pc = "done", ![r].upStatus = status,
                        ![r].res = JsonError(502,
                                             "Failed to fetch IPFS content")]
  /\ UNCHANGED <<clock, ticks, cache, writer, deployVars>>

\* Lines 33-36: the gateway answers with a status that is not 2xx.
FetchNotOk(r, status) ==
  /\ req[r].pc = "awaitFetch"
  /\ ~StatusOk(status)
  /\ req' = [req EXCEPT ![r].pc = "done", ![r].upStatus = status,
                        ![r].res = JsonError(status,
                                             "Failed to fetch IPFS content")]
  /\ UNCHANGED <<clock, ticks, cache, writer, deployVars>>

\* Lines 33-38: the gateway answers 200 for content it holds; the handler
\* awaits the body.
FetchOk(r) ==
  /\ req[r].pc = "awaitFetch"
  /\ GatewayPath(req[r].cid) \in DOMAIN pinned
  /\ StatusOk(200)
  /\ req' = [req EXCEPT ![r].pc = "awaitBody", ![r].upStatus = 200,
                        ![r].ctype = pinned[GatewayPath(req[r].cid)].type]
  /\ UNCHANGED <<clock, ticks, cache, writer, deployVars>>

\* Line 38 rejects: the catch of lines 58-60.
BodyRejects(r) ==
  /\ req[r].pc = "awaitBody"
  /\ req' = [req EXCEPT ![r].pc = "done",
                        ![r].res = JsonError(500, "terminated")]
  /\ UNCHANGED <<clock, ticks, cache, writer, deployVars>>

\* Mutant: an entry that is already there is kept.
BodyReadIfAbsent(r) ==
  /\ req[r].pc = "awaitBody"
  /\ LET data == pinned[GatewayPath(req[r].cid)].data
         absent == req[r].cid \notin DOMAIN cache
     IN /\ cache' = IF absent
                    THEN CachePut(cache, req[r].cid, data, req[r].ctype,
                                  req[r].now)
                    ELSE cache
        /\ writer' = IF absent
                     THEN [k \in DOMAIN writer \cup {req[r].cid} |->
                             IF k = req[r].cid THEN r ELSE writer[k]]
                     ELSE writer
        /\ req' = [req EXCEPT ![r].pc = "done",
                              ![r].res = SendData(data, req[r].ctype)]
  /\ UNCHANGED <<clock, ticks, deployVars>>

\* Lines 38-57: the body is read, cached and sent.
BodyRead(r) ==
  /\ req[r].pc = "awaitBody"
  /\ LET data == pinned[GatewayPath(req[r].cid)].data
     IN /\ cache' = CachePut(cache, req[r].cid, data, req[r].ctype, req[r].now)
        /\ req' = [req EXCEPT ![r].pc = "done",
                              ![r].res = SendData(data, req[r].ctype)]
  /\ writer' = [k \in DOMAIN writer \cup {req[r].cid} |->
                  IF k = req[r].cid THEN r ELSE writer[k]]
  /\ UNCHANGED <<clock, ticks, deployVars>>

\* Time passes.
Tick(d) ==
  /\ ticks < MaxTicks
  /\ clock' = clock + d
  /\ ticks' = ticks + 1
  /\ UNCHANGED <<proxyVars, deployVars, clientVars>>

-----------------------------------------------------------------------------
(* The proxy on its own, called by arbitrary clients *)

\* The URLs clients request: no query, an empty cid, and two identifiers.
ClientUrls ==
  { <<"/api/ipfsProxy">>,
    <<"/api/ipfsProxy", "?", "cid", "=">>,
    <<"/api/ipfsProxy", "?", "cid", "=", CID>>,
    <<"/api/ipfsProxy", "?", "cid", "=", OTHER_CID>> }

\* The statuses the gateway answers with when it does not answer 200.
UpstreamErrors == {404, 503}

ClientRequest ==
  \E r \in ReqIds, url \in ClientUrls :
    HandlerStart(r, url) /\ UNCHANGED clientVars
GatewayRejects == \E r \in ReqIds : FetchRejects(r) /\ UNCHANGED clientVars
GatewayNotOk ==
  \E r \in ReqIds, s \in UpstreamErrors : FetchNotOk(r, s) /\ UNCHANGED clientVars
GatewayOk == \E r \in ReqIds : FetchOk(r) /\ UNCHANGED clientVars
GatewayBodyRejects == \E r \in ReqIds : BodyRejects(r) /\ UNCHANGED clientVars
GatewayBodyRead == \E r \in ReqIds : BodyRead(r) /\ UNCHANGED clientVars
TimePasses == \E d \in TickSteps : Tick(d)

NoFiles == [bin |-> << >>, json |-> [key |-> << >>, iv |-> << >>],
            plain |-> << >>, key |-> << >>, iv |-> << >>, runs |-> 0,
            log |-> << >>, published |-> FALSE]

IdleClick == [pc |-> "idle", disabled |-> FALSE, connected |-> FALSE,
              clicks |-> 0]

\* A flow that has not started.  Beside loadAndDisplay's locals the record
\* keeps what the flow did (its requests, its decryption, where it failed,
\* what it rendered) and the token accounts the ownership check that started
\* it had been given.
IdleFlow ==
  [pc |-> "idle", url |-> << >>, req |-> 0,
   ivFromFile |-> << >>, ciphertext |-> << >>, rawKey |-> << >>,
   ivFromKey |-> << >>, envelopeFetches |-> 0, keyFetches |-> 0,
   decrypts |-> 0, failedAt |-> "", rendered |-> << >>, accounts |-> {}]

InitUi == [message |-> "", src |-> << >>, playerDisplay |-> "none",
           containerDisplay |-> "none"]

Init ==
  /\ clock = 0
  /\ ticks = 0
  /\ cache = << >>
  /\ writer = << >>
  /\ req = [r \in ReqIds |-> IdleReq]
  /\ pinned = (<<CID>> :> [data |-> <<1, 2>>, type |-> "video/mp4"])
              @@ (<<OTHER_CID>> :> [data |-> <<3>>, type |-> ""])
  /\ files = NoFiles
  /\ env = [ENCRYPTION_KEY |-> << >>, ENCRYPTION_IV |-> << >>]
  /\ click = IdleClick
  /\ flow = [f \in FlowIds |-> IdleFlow]
  /\ ui = InitUi

NextProxy ==
  \/ ClientRequest
  \/ GatewayRejects
  \/ GatewayNotOk
  \/ GatewayOk
  \/ GatewayBodyRejects
  \/ GatewayBodyRead
  \/ TimePasses

SpecProxy == Init /\ [][NextProxy]_vars

-----------------------------------------------------------------------------
(* The proxy with a gateway that never answers for one identifier *)

\* The gateway never answers the request of this invocation.
Hangs(r) == req[r].cid = <<OTHER_CID>>

\* The promise of line 33 settles.
UpstreamAnswers(r) ==
  /\ ~Hangs(r)
  /\ \/ FetchRejects(r)
     \/ \E s \in UpstreamErrors : FetchNotOk(r, s)
     \/ FetchOk(r)
  /\ UNCHANGED clientVars

\* The promise of line 38 settles.
BodySettles(r) ==
  /\ BodyRejects(r) \/ BodyRead(r)
  /\ UNCHANGED clientVars

GatewayAnswers == \E r \in ReqIds : UpstreamAnswers(r)

GatewayBodySettles == \E r \in ReqIds : BodySettles(r)

NextHung ==
  \/ ClientRequest
  \/ GatewayAnswers
  \/ GatewayBodySettles
  \/ TimePasses

\* A promise that can settle does settle, and its continuation is run.
HungFairness ==
  \A r \in ReqIds :
    /\ WF_vars(UpstreamAnswers(r))
    /\ WF_vars(BodySettles(r))

SpecHung == Init /\ [][NextHung]_vars /\ HungFairness

-----------------------------------------------------------------------------
(* The producer run and the deployment of its output *)

\* node encrypt.js <file>: encryptVideo with the file's bytes, a generated key
\* and a random nonce; the two output files are written.
ProducerRun ==
  /\ files.runs < MaxRuns
  /\ ~files.published
  /\ \E plain \in Plaintexts :
       LET key == GeneratedKey(files.runs + 1)
           iv == GeneratedIv(files.runs + 1)
           out == EncryptVideo(plain, key, iv)
       IN files' = [files EXCEPT !.bin = out.bin, !.json = out.json,
                                 !.plain = plain, !.key = key, !.iv = iv,
                                 !.runs = @ + 1,
                                 !.log = Append(@, [key |-> key, iv |-> iv])]
  /\ UNCHANGED <<clock, ticks, proxyVars, pinned, env, clientVars>>

\* A byte of a buffer changed.
TamperAt(bytes, i) == [bytes EXCEPT ![i] = (@ + 1) % 256]

\* What may end up under CID on the gateway: the envelope file, or the file
\* with its last byte changed.
PublishedData == {files.bin, TamperAt(files.bin, Len(files.bin))}

\* What the operator may store in ENCRYPTION_KEY and ENCRYPTION_IV: the values
\* of encryptionKey.json, other values, or nothing.
ConfiguredKeys == {files.json.key, JsonStringify(OtherKey), << >>}
ConfiguredIVs == {files.json.iv, JsonStringify(OtherIv), << >>}

\* The deployments of the model: at most one of the three differs from what
\* the producer wrote.
Deployments ==
  {d \in PublishedData \X ConfiguredKeys \X ConfiguredIVs :
     Cardinality({i \in 1..3 :
                    d[i] # <<files.bin, files.json.key, files.json.iv>>[i]}) <= 1}

\* The envelope is pinned under CID and the key route is configured.
Deploy ==
  /\ files.runs > 0
  /\ ~files.published
  /\ \E d \in Deployments :
       /\ pinned' = [pinned EXCEPT ![<<CID>>] =
                       [data |-> d[1], type |-> "application/octet-stream"]]
       /\ env' = [ENCRYPTION_KEY |-> d[2], ENCRYPTION_IV |-> d[3]]
  /\ files' = [files EXCEPT !.published = TRUE]
  /\ UNCHANGED <<clock, ticks, proxyVars, clientVars>>

-----------------------------------------------------------------------------
(* The page: the click handler and loadAndDisplay *)

\* encrypt.mjs line 87
VIDEO_URL == <<"/api/ipfsProxy", "?", "cid", "=", CID>>

\* encrypt.mjs line 134
NFT_MINT == "Fq6bMazX8ZaBNxDhHpeQtBzUMG11mhw4A7zj3MvnUqvb"

\* decryptionFunction.js line 72, encrypt.mjs line 223 (after the mark)
FAIL_TEXT == "Decryption failed."

\* fetch(`${VIDEO_URL}?t=${Date.now()}`)
EnvelopeUrl(now) == VIDEO_URL \o <<"?", "t", "=", ToString(now)>>

\* The token accounts the chain may report for the wallet.
TokenAccountSets ==
  { {},
    {[mint |-> NFT_MINT, uiAmount |-> 0]},
    {[mint |-> "otherMint", uiAmount |-> 1], [mint |-> NFT_MINT, uiAmount |-> 2]},
    {[mint |-> "otherMint", uiAmount |-> 1]} }

\* Mutant: an account of the mint counts whatever its balance.
HasNFTAnyAmount(accounts) ==
  \E a \in accounts : a.mint = NFT_MINT

\* encrypt.mjs lines 139-144: tokenAccounts.value.some(...)
HasNFT(accounts) ==
  \E a \in accounts : a.mint = NFT_MINT /\ a.uiAmount > 0

NextFlow == click.clicks

\* encrypt.mjs lines 89-101: a click; without a Phantom provider the handler
\* alerts and returns, else it awaits provider.connect().
Click ==
  \E phantom \in BOOLEAN :
    /\ files.published
    /\ ~click.disabled
    /\ click.clicks < MaxClicks
    /\ click' = IF phantom
                THEN [click EXCEPT !.pc = "awaitConnect", !.disabled = TRUE,
                                   !.clicks = @ + 1]
                ELSE [click EXCEPT !.clicks = @ + 1]
    /\ UNCHANGED <<clock, ticks, proxyVars, deployVars, flow, ui>>

\* Lines 101-108 and 120-135: the wallet connects; the handler shows the
\* address and awaits the token accounts of the owner.
ConnectResolves ==
  /\ click.pc = "awaitConnect"
  /\ click' = [click EXCEPT !.pc = "awaitAccounts", !.connected = TRUE]
  /\ ui' = [ui EXCEPT !.message = "Connected wallet"]
  /\ UNCHANGED <<clock, ticks, proxyVars, deployVars, flow>>

\* Lines 110-116: provider.connect() rejects.
ConnectRejects ==
  /\ click.pc = "awaitConnect"
  /\ click' = [click EXCEPT !.pc = "idle", !.disabled = FALSE]
  /\ ui' = [ui EXCEPT !.message = "Wallet connection failed"]
  /\ UNCHANGED <<clock, ticks, proxyVars, deployVars, flow>>

\* decryptionFunction.js lines 4-12: loadAndDisplay up to its first await.
FlowStarted(f) ==
  [flow EXCEPT ![f].pc = "awaitEnvelope", ![f].url = EnvelopeUrl(clock),
               ![f].envelopeFetches = @ + 1]

\* encrypt.mjs lines 119-128 and 135-149, then the finally of line 115: the
\* accounts arrive (or the lookup throws, which counts as not owning).
AccountsResolve ==
  \E threw \in BOOLEAN, accounts \in TokenAccountSets :
    /\ click.pc = "awaitAccounts"
    /\ threw => accounts = {}
    /\ LET hasNFT == ~threw /\ HasNFT(accounts)
       IN IF hasNFT
          THEN /\ ui' = [ui EXCEPT !.message = "Yes, you have the NFT"]
               /\ flow' = [FlowStarted(NextFlow) EXCEPT
                             ![NextFlow].accounts = accounts]
          ELSE /\ ui' = [ui EXCEPT !.message = "No, you do not have the NFT"]
               /\ UNCHANGED flow
    /\ click' = [click EXCEPT !.pc = "idle", !.disabled = FALSE]
    /\ UNCHANGED <<clock, ticks, proxyVars, deployVars>>

\* encrypt.mjs lines 228-230: a connected wallet disconnects.
Disconnect ==
  /\ click.connected
  /\ click' = [click EXCEPT !.connected = FALSE]
  /\ ui' = [ui EXCEPT !.message = "Wallet disconnected, please reconnect"]
  /\ UNCHANGED <<clock, ticks, proxyVars, deployVars, flow>>

\* The request of a flow reaches the proxy: an invocation of its handler.
ProxyServe ==
  \E f \in FlowIds, r \in ReqIds :
    /\ flow[f].pc = "awaitEnvelope"
    /\ flow[f].req = 0
    /\ HandlerStart(r, flow[f].url)
    /\ flow' = [flow EXCEPT ![f].req = r]
    /\ UNCHANGED <<click, ui>>

\* Mutant: the catch leaves the message as it was.
FlowFailsSilently(f, at) ==
  /\ flow' = [flow EXCEPT ![f].pc = "failed", ![f].failedAt = at]
  /\ UNCHANGED ui

\* The catch of lines 70-73.
FlowFails(f, at) ==
  /\ flow' = [flow EXCEPT ![f].pc = "failed", ![f].failedAt = at]
  /\ ui' = [ui EXCEPT !.message = FAIL_TEXT]

\* Line 12 rejects (the request does not reach the proxy).
EnvelopeFetchRejects ==
  \E f \in FlowIds :
    /\ flow[f].pc = "awaitEnvelope"
    /\ flow[f].req = 0
    /\ FlowFails(f, "envelope")
    /\ UNCHANGED <<clock, ticks, proxyVars, deployVars, click>>

\* Lines 12-30: the proxy's response arrives; not ok throws, else the bytes
\* are split at 12 and the key is requested.
EnvelopeResponse ==
  \E f \in FlowIds :
    /\ flow[f].pc = "awaitEnvelope"
    /\ flow[f].req # 0
    /\ req[flow[f].req].pc = "done"
    /\ LET res == req[flow[f].req].res
       IN IF ~StatusOk(res.status)
          THEN FlowFails(f, "envelope")
          ELSE /\ flow' = [flow EXCEPT
                             ![f].pc = "awaitKey",
                             ![f].ivFromFile = Slice(res.data, 0, IV_LEN),
                             ![f].ciphertext = SliceFrom(res.data, IV_LEN),
                             ![f].keyFetches = @ + 1]
               /\ UNCHANGED ui
    /\ UNCHANGED <<clock, ticks, proxyVars, deployVars, click>>

\* Line 30 rejects.
KeyFetchRejects ==
  \E f \in FlowIds :
    /\ flow[f].pc = "awaitKey"
    /\ FlowFails(f, "key")
    /\ UNCHANGED <<clock, ticks, proxyVars, deployVars, click>>

\* Lines 30-58: the key route's response arrives; not ok throws, else the key
\* and the nonce of the record are taken and the decryption is started.
KeyResponse ==
  \E f \in FlowIds :
    /\ flow[f].pc = "awaitKey"
    /\ LET keyResponse == KeyHandler(env.ENCRYPTION_KEY, env.ENCRYPTION_IV)
       IN IF ~StatusOk(keyResponse.status)
          THEN FlowFails(f, "key")
          ELSE /\ flow' = [flow EXCEPT
                             ![f].pc = "awaitDecrypt",
                             ![f].rawKey = JsonParse(keyResponse.key),
                             ![f].ivFromKey = JsonParse(keyResponse.iv)]
               /\ UNCHANGED ui
    /\ UNCHANGED <<clock, ticks, proxyVars, deployVars, click>>

\* Mutant: the nonce parsed from the envelope is used.
DecryptIvFromFile(f) == flow[f].ivFromFile

\* The nonce subtle.decrypt is given, line 55.
DecryptIv(f) == flow[f].ivFromKey

\* Lines 44-73: importKey and decrypt settle; on success the video is shown.
DecryptResolves ==
  \E f \in FlowIds :
    /\ flow[f].pc = "awaitDecrypt"
    /\ LET d == GcmDecrypt(flow[f].rawKey, DecryptIv(f), flow[f].ciphertext)
       IN IF ~ImportKeyOk(flow[f].rawKey)
          THEN FlowFails(f, "import")
          ELSE IF ~d.ok
          THEN /\ flow' = [flow EXCEPT ![f].pc = "failed",
                                       ![f].failedAt = "decrypt",
                                       ![f].decrypts = @ + 1]
               /\ ui' = [ui EXCEPT !.message = FAIL_TEXT]
          ELSE /\ flow' = [flow EXCEPT ![f].pc = "shown",
                                       ![f].decrypts = @ + 1,
                                       ![f].rendered = d.plain]
               /\ ui' = [message |-> ui.message \o " | Video loaded!",
                         src |-> d.plain, playerDisplay |-> "block",
                         containerDisplay |-> "block"]
    /\ UNCHANGED <<clock, ticks, proxyVars, deployVars, click>>

\* A millisecond passes.  The page and the proxy read the clock when a flow
\* starts and when a request reaches the proxy, so only then does it matter.
MillisecondPasses ==
  /\ \/ click.pc = "awaitAccounts"
     \/ \E f \in FlowIds : flow[f].pc = "awaitEnvelope" /\ flow[f].req = 0
  /\ ticks < MaxPageTicks
  /\ Tick(1)

Next ==
  \/ ProducerRun
  \/ Deploy
  \/ Click
  \/ ConnectResolves
  \/ ConnectRejects
  \/ AccountsResolve
  \/ Disconnect
  \/ ProxyServe
  \/ GatewayNotOk
  \/ GatewayOk
  \/ GatewayBodyRead
  \/ EnvelopeFetchRejects
  \/ EnvelopeResponse
  \/ KeyFetchRejects
  \/ KeyResponse
  \/ DecryptResolves
  \/ MillisecondPasses

Spec == Init /\ [][Next]_vars

-----------------------------------------------------------------------------
(* Properties of the proxy *)

Started == {r \in ReqIds : req[r].pc # "idle"}

Responded == {r \in ReqIds : req[r].pc = "done"}

\* The invocation fetched from the gateway, read the body and cached it.
Populated(r) ==
  /\ req[r].pc = "done"
  /\ ~req[r].hit
  /\ req[r].res.status = 200

\* r2 started after r1 had responded, for the same cid, less than the TTL
\* after r1 started.
Consecutive(r1, r2) ==
  /\ r1 \in Responded
  /\ r2 \in Responded
  /\ r1 \in req[r2].preds
  /\ ~MissingCid(req[r1].cid)
  /\ req[r2].cid = req[r1].cid
  /\ req[r2].now - req[r1].now < CACHE_TTL

\* The instants of the gateway requests issued for r's cid before r started,
\* and the last of them (invocations start in the order of their numbers).
UpstreamBefore(r) ==
  {req[q].now : q \in {x \in 1..(r - 1) :
                         req[x].cid = req[r].cid /\ req[x].upstream = 1}}

LastUpstreamBefore(r) ==
  CHOOSE t \in UpstreamBefore(r) : \A u \in UpstreamBefore(r) : u <= t

C2_FreshOnly ==
  \A r \in Started :
    /\ req[r].hit =>
         /\ req[r].seenTs >= 0
         /\ req[r].now - req[r].seenTs < CACHE_TTL
    /\ ( /\ ~MissingCid(req[r].cid)
         /\ UpstreamBefore(r) # {}
         /\ req[r].now - LastUpstreamBefore(r) >= CACHE_TTL )
       => (req[r].upstream = 1 /\ ~req[r].hit)

C2_Witness ==
  \E r \in Started :
    /\ req[r].seenTs >= 0
    /\ UpstreamBefore(r) # {}
    /\ req[r].now - LastUpstreamBefore(r) = CACHE_TTL
    /\ req[r].upstream = 1

\* C3: a step of the handler changes the cache exactly when it is the step
\* that ends a successful gateway fetch; that step stores the fetched bytes
\* and Content-Type under the invocation's cid and leaves the other entries
\* alone, and a step that ends in a cache hit, a 400, a propagated gateway
\* status or a 500 leaves the cache unchanged.
C3_CacheWriteOnlyOnSuccess ==
  [][ /\ cache' # cache =>
           \E r \in ReqIds :
             /\ req[r].pc = "awaitBody"
             /\ req'[r].pc = "done"
             /\ req'[r].res.status = 200
      /\ \A r \in ReqIds :
           (req[r].pc # "done" /\ req'[r].pc = "done") =>
             IF req'[r].res.status = 200 /\ ~req'[r].hit
             THEN /\ req[r].cid \in DOMAIN cache'
                  /\ cache'[req[r].cid].data = req'[r].res.data
                  /\ cache'[req[r].cid].contentType = req[r].ctype
                  /\ \A k \in DOMAIN cache :
                       k # req[r].cid => (k \in DOMAIN cache' /\ cache'[k] = cache[k])
             ELSE cache' = cache ]_vars

C3_Witness ==
  /\ \E r \in ReqIds :
       /\ Populated(r)
       /\ req[r].cid \in DOMAIN cache
       /\ cache[req[r].cid].data = req[r].res.data
  /\ \E r \in Responded : req[r].res.status = 500
  /\ \E r \in Responded : req[r].hit

\* C4: when the gateway answers with a status that is not 2xx, the handler
\* responds with that status and {error: "Failed to fetch IPFS content"} and
\* the step leaves the cache unchanged.
C4_UpstreamStatusPropagated ==
  [][ \A r \in ReqIds :
        ( /\ req[r].pc = "awaitFetch"
          /\ req'[r].upStatus # 0
          /\ ~StatusOk(req'[r].upStatus) ) =>
          /\ req'[r].pc = "done"
          /\ req'[r].res.status = req'[r].upStatus
          /\ req'[r].res.json = "Failed to fetch IPFS content"
          /\ req'[r].res.data = << >>
          /\ cache' = cache ]_vars

C4_Witness ==
  \E r1, r2 \in ReqIds :
    /\ req[r1].pc = "done" /\ req[r1].upStatus = 404
    /\ req[r1].res.status = 404
    /\ req[r2].pc = "done" /\ req[r2].upStatus = 503
    /\ req[r2].cid = req[r1].cid
    /\ req[r1].cid \notin DOMAIN cache

\* C5: a request without a cid, or with an empty one, is answered 400
\* {error: "Missing CID"} in its first step, issues no gateway request and
\* leaves the cache unchanged.
C5_MissingCid400 ==
  [][ \A r \in ReqIds :
        ( /\ req[r].pc = "idle"
          /\ req'[r].pc # "idle"
          /\ req'[r].cid = << >> ) =>
          /\ req'[r].pc = "done"
          /\ req'[r].res = [status |-> 400, json |-> "Missing CID",
                            data |-> << >>, headers |-> {}]
          /\ req'[r].upstream = 0
          /\ cache' = cache ]_vars

C5_Witness ==
  \E r \in Responded :
    /\ req[r].cid = << >>
    /\ req[r].res.status = 400
    /\ cache # << >>

\* C6 as stated: every response the handler sends carries
\* Access-Control-Allow-Origin: *.
C6_CorsOnEveryResponse ==
  \A r \in Responded : CorsHeader \in req[r].res.headers

-----------------------------------------------------------------------------
(* Properties of the page: loadAndDisplay against the producer's output *)

\* The flows whose decryption has settled.
Decrypted == {f \in FlowIds : flow[f].decrypts = 1}

\* The flow got the producer's envelope, byte for byte, from the proxy.
GotEnvelope(f) == flow[f].ivFromFile \o flow[f].ciphertext = files.bin

\* The flow got the producer's key from the key route.
GotKey(f) == flow[f].rawKey = files.key

Served == {f \in FlowIds : flow[f].req # 0}

\* C8 as stated: the cid a flow sends to the proxy is the configured CID
\* whatever the time of the call, and of two flows served one after the other
\* within the TTL, the first having populated the cache, the second issues no
\* gateway request.
C8_ConfiguredCidSent ==
  /\ \A f \in Served : req[flow[f].req].cid = <<CID>>
  /\ \A f1, f2 \in Served :
       ( /\ req[flow[f1].req].pc = "done"
         /\ flow[f1].req \in req[flow[f2].req].preds
         /\ Populated(flow[f1].req)
         /\ req[flow[f2].req].now - req[flow[f1].req].now < CACHE_TTL )
       => req[flow[f2].req].upstream = 0

\* C9: a flow that got the producer's envelope from the proxy and the
\* producer's key and nonce from the key route hands the producer's plaintext
\* to the video element.
C9_RoundTrip ==
  \A f \in FlowIds :
    ( /\ flow[f].pc \in {"shown", "failed"}
      /\ flow[f].failedAt \notin {"envelope", "key"}
      /\ GotEnvelope(f)
      /\ GotKey(f)
      /\ flow[f].ivFromKey = files.iv )
    => /\ flow[f].pc = "shown"
       /\ flow[f].rendered = files.plain

C9_Witness ==
  \E f \in FlowIds :
    /\ flow[f].pc = "shown"
    /\ GotEnvelope(f) /\ GotKey(f) /\ flow[f].ivFromKey = files.iv
    /\ files.plain = <<72, 69>>
    /\ flow[f].rendered = <<72, 69>>
    /\ ui.src = <<72, 69>>

\* C10: the step in which a flow fails sets the message to the failure text
\* and leaves the video source and the two displays alone; a failed flow
\* takes no further step; and a failed flow has rendered nothing, has sent
\* each request at most once, has sent no key request after a failed
\* envelope fetch and has started no decryption after a failed key fetch.
C10_FailureTerminal ==
  [][ \A f \in FlowIds :
        /\ (flow[f].pc # "failed" /\ flow'[f].pc = "failed") =>
             /\ ui'.message = FAIL_TEXT
             /\ ui'.src = ui.src
             /\ ui'.playerDisplay = ui.playerDisplay
             /\ ui'.containerDisplay = ui.containerDisplay
             /\ flow'[f].failedAt \in {"envelope", "key", "import", "decrypt"}
        /\ flow[f].pc = "failed" => flow'[f] = flow[f]
        /\ flow'[f].pc = "failed" =>
             /\ flow'[f].rendered = << >>
             /\ flow'[f].envelopeFetches = 1
             /\ flow'[f].keyFetches <= 1
             /\ flow'[f].decrypts <= 1
             /\ flow'[f].failedAt = "envelope" =>
                  (flow'[f].keyFetches = 0 /\ flow'[f].decrypts = 0)
             /\ flow'[f].failedAt = "key" => flow'[f].decrypts = 0 ]_vars

C10_Witness ==
  \E f1, f2 \in FlowIds :
    /\ flow[f1].pc = "failed" /\ flow[f1].failedAt = "envelope"
    /\ flow[f1].req # 0
    /\ flow[f2].pc = "failed" /\ flow[f2].failedAt = "decrypt"
    /\ ui.message = FAIL_TEXT
    /\ ui.src = << >>

-----------------------------------------------------------------------------
(* Properties of the click handler *)

\* The flows that have started.
StartedFlows == {f \in FlowIds : flow[f].pc # "idle"}

\* C11: a flow starts only in the step in which the ownership check of the
\* click being handled returns, with token accounts that hold the mint with a
\* positive amount; a click without a wallet, a rejected connection and a
\* check that does not find the token (or throws) start no flow and leave the
\* video element alone; a flow that has not started has sent no request and
\* rendered nothing, and a video is displayed only by a started flow.
C11_FlowOnlyAfterOwnership ==
  [][ /\ \A f \in FlowIds :
           (flow[f].pc = "idle" /\ flow'[f].pc # "idle") =>
             /\ click.pc = "awaitAccounts"
             /\ click'.pc = "idle"
             /\ f = click.clicks
             /\ \E a \in flow'[f].accounts :
                  a.mint = NFT_MINT /\ a.uiAmount > 0
             /\ ui'.message = "Yes, you have the NFT"
      /\ ( \/ click.pc = "idle" /\ click'.clicks # click.clicks
                                /\ click'.pc = "idle"
           \/ click.pc = "awaitConnect" /\ click'.pc = "idle"
           \/ click.pc = "awaitAccounts"
                /\ ui'.message = "No, you do not have the NFT" )
         => /\ flow' = flow
            /\ ui'.src = ui.src
            /\ ui'.playerDisplay = ui.playerDisplay
            /\ ui'.containerDisplay = ui.containerDisplay
      /\ \A f \in FlowIds \ StartedFlows :
           /\ flow[f].envelopeFetches = 0
           /\ flow[f].keyFetches = 0
           /\ flow[f].req = 0
      /\ \A f \in StartedFlows : f <= click.clicks
      /\ (ui.src # << >> \/ ui.containerDisplay = "block") =>
           \E f \in StartedFlows : flow[f].pc = "shown" ]_vars

\* Two clicks: the first started no flow, the second started one that has
\* shown the video.
C11_Witness ==
  /\ click.clicks = 2
  /\ flow[1].pc = "idle"
  /\ flow[2].pc = "shown"
  /\ [mint |-> NFT_MINT, uiAmount |-> 2] \in flow[2].accounts

-----------------------------------------------------------------------------
(* Properties of the cache entries *)

\* The cids whose entry a step writes.
Written(c1, c2) == {k \in DOMAIN c2 : k \notin DOMAIN c1 \/ c2[k] # c1[k]}

\* C12 as stated: the timestamp of an entry is the time at which the entry is
\* written.
C12_TimestampIsWriteTime ==
  [][ \A k \in Written(cache, cache') : cache'[k].timestamp = clock' ]_vars

-----------------------------------------------------------------------------
(* Properties of the key route *)

\* The flows that the key route has answered 200.
GotKeyResponse ==
  {f \in FlowIds : \/ flow[f].pc \in {"awaitDecrypt", "shown"}
                   \/ flow[f].failedAt \in {"import", "decrypt"}}

\* C13: the key route answers 200, with the key and the nonce, exactly when
\* ENCRYPTION_KEY and ENCRYPTION_IV are both set, and 500
\* {error: "Encryption key not configured."} with neither when one of them is
\* missing; a flow it answered 200 holds both values of the configuration.
C13_KeyAndIvTogether ==
  LET res == KeyHandler(env.ENCRYPTION_KEY, env.ENCRYPTION_IV)
      both == env.ENCRYPTION_KEY # << >> /\ env.ENCRYPTION_IV # << >>
  IN /\ res.status \in {200, 500}
     /\ res.status = 200 <=> both
     /\ res.status = 200 =>
          /\ JsonParse(res.key) = JsonParse(env.ENCRYPTION_KEY)
          /\ JsonParse(res.iv) = JsonParse(env.ENCRYPTION_IV)
          /\ res.key # << >> /\ res.iv # << >>
          /\ res.error = ""
     /\ res.status = 500 =>
          /\ res.error = "Encryption key not configured."
          /\ res.key = << >> /\ res.iv = << >>
     /\ \A f \in GotKeyResponse :
          /\ both
          /\ flow[f].rawKey = JsonParse(env.ENCRYPTION_KEY)
          /\ flow[f].ivFromKey = JsonParse(env.ENCRYPTION_IV)
          /\ Len(flow[f].rawKey) > 0 /\ Len(flow[f].ivFromKey) > 0

\* The key is configured and the nonce is not, and a flow has asked the route;
\* another flow holds the envelope and waits for the route.
C13_Witness ==
  /\ env.ENCRYPTION_KEY # << >>
  /\ env.ENCRYPTION_IV = << >>
  /\ KeyHandler(env.ENCRYPTION_KEY, env.ENCRYPTION_IV).status = 500
  /\ \E f \in FlowIds :
       /\ flow[f].pc = "failed" /\ flow[f].failedAt = "key"
       /\ flow[f].keyFetches = 1
       /\ flow[f].rawKey = << >> /\ flow[f].ivFromKey = << >>

-----------------------------------------------------------------------------
(* Properties of the producer *)

\* C14: after a producer run the envelope file is the 12-byte nonce followed
\* by the ciphertext with its tag, the nonce of the key file is that 12-byte
\* prefix, and the key of the key file is the key the ciphertext was made
\* with.
C14_EnvelopeLayout ==
  files.runs > 0 =>
    LET encrypted == GcmEncrypt(files.key, files.iv, files.plain)
        keyInFile == JsonParse(files.json.key)
        ivInFile == JsonParse(files.json.iv)
    IN /\ Len(files.iv) = IV_LEN
       /\ Len(files.bin) = IV_LEN + Len(encrypted)
       /\ Len(encrypted) = Len(files.plain) + TAG_LEN
       /\ Slice(files.bin, 0, IV_LEN) = files.iv
       /\ SliceFrom(files.bin, IV_LEN) = encrypted
       /\ ivInFile = Slice(files.bin, 0, IV_LEN)
       /\ keyInFile = files.key
       /\ Len(keyInFile) = KEY_LEN
       /\ GcmDecrypt(keyInFile, ivInFile, SliceFrom(files.bin, IV_LEN))
            = [ok |-> TRUE, plain |-> files.plain]

C14_Witness ==
  /\ files.runs > 0
  /\ files.plain = <<255>>
  /\ Len(files.bin) = IV_LEN + 1 + TAG_LEN
  /\ JsonParse(files.json.iv) = Slice(files.bin, 0, IV_LEN)

-----------------------------------------------------------------------------
(* Properties of concurrent invocations of the proxy *)

\* The invocation found no fresh entry for its cid when it started.
Missed(r) ==
  /\ req[r].pc # "idle"
  /\ ~MissingCid(req[r].cid)
  /\ req[r].seenTs = -1 \/ req[r].now - req[r].seenTs >= CACHE_TTL

\* The invocations overlap: neither had responded when the other started.
Overlap(r1, r2) ==
  /\ r1 # r2
  /\ req[r1].pc # "idle" /\ req[r2].pc # "idle"
  /\ r1 \notin req[r2].preds
  /\ r2 \notin req[r1].preds

\* C15: every invocation that finds no fresh entry issues its own gateway
\* request, whatever requests for the same cid are in flight; and the step
\* that ends a successful fetch writes the entry of its cid with what it
\* fetched and its own timestamp, replacing what an invocation that completed
\* before it wrote.
C15_NoCoalescing ==
  [][ /\ \A r \in ReqIds : Missed(r) => (req[r].upstream = 1 /\ ~req[r].hit)
      /\ \A r \in ReqIds :
           (req[r].pc = "awaitBody" /\ req'[r].pc = "done"
              /\ req'[r].res.status = 200) =>
             /\ req[r].cid \in DOMAIN cache'
             /\ cache'[req[r].cid] =
                  [data |-> req'[r].res.data, contentType |-> req[r].ctype,
                   timestamp |-> req[r].now]
             /\ writer'[req[r].cid] = r ]_vars

\* Three overlapping misses for one cid, each with its own gateway request and
\* its own write; the first to start completed last and its entry, which has
\* the oldest timestamp, is the one left.
C15_Witness ==
  /\ \A r \in 1..3 :
       /\ req[r].pc = "done" /\ req[r].cid = <<CID>>
       /\ Missed(r) /\ req[r].upstream = 1 /\ req[r].res.status = 200
  /\ Overlap(1, 2) /\ Overlap(2, 3) /\ Overlap(1, 3)
  /\ req[1].now < req[2].now
  /\ writer[<<CID>>] = 1
  /\ cache[<<CID>>].timestamp = req[1].now

-----------------------------------------------------------------------------
(* Progress of the proxy's invocations *)

\* C16: with a gateway that never answers for one identifier, every
\* invocation that does not wait for that gateway request is eventually
\* responded to, a response once sent is never changed, and an invocation
\* that waits for the answer that never comes stays unanswered.
C16_HungDoesNotBlock ==
  /\ \A r \in ReqIds :
       (req[r].pc # "idle" /\ ~Hangs(r)) ~>
         (req[r].pc = "done" /\ req[r].res.status # 0)
  /\ \A r \in ReqIds :
       [](( req[r].pc = "awaitFetch" /\ Hangs(r)) =>
            [](req[r].pc = "awaitFetch" /\ req[r].res = NoRes))
  /\ [][ \A r \in ReqIds : req[r].pc = "done" => req'[r] = req[r] ]_vars

\* The first invocation waits for the gateway; two that started after it have
\* been responded to, one after its own gateway request, one from the cache.
C16_Witness ==
  /\ req[1].pc = "awaitFetch" /\ Hangs(1)
  /\ req[2].pc = "done" /\ req[2].upstream = 1 /\ req[2].res.status = 200
  /\ req[3].pc = "done" /\ req[3].hit
  /\ 1 \notin req[3].preds

\* C17: every producer run performs exactly one encryption, with the key and
\* the nonce generated in that run (generateKey and getRandomValues being
\* taken to give values no earlier call gave); no two encryptions share a key,
\* a nonce or a (key, nonce) pair, and the files left are those of the last
\* run.
C17_NoKeyReuse ==
  /\ Len(files.log) = files.runs
  /\ \A i \in DOMAIN files.log :
       /\ files.log[i].key = GeneratedKey(i)
       /\ files.log[i].iv = GeneratedIv(i)
  /\ \A i, j \in DOMAIN files.log :
       i # j => /\ files.log[i].key # files.log[j].key
                /\ files.log[i] # files.log[j]
  /\ files.runs > 0 =>
       /\ files.log[files.runs] = [key |-> files.key, iv |-> files.iv]
       /\ JsonParse(files.json.key) = files.log[files.runs].key

C17_Witness ==
  /\ files.runs = 2
  /\ Len(files.log) = 2
  /\ files.log[1].key # files.log[2].key
  /\ files.key = files.log[2].key
  /\ files.published

-----------------------------------------------------------------------------
(* Properties of the cache across interleavings *)

\* C18 as stated: no step replaces the entry of a cid by one with an older
\* timestamp.
C18_TimestampMonotone ==
  [][ \A k \in DOMAIN cache :
        /\ k \in DOMAIN cache'
        /\ cache'[k].timestamp >= cache[k].timestamp ]_vars

\* The invocations answered from the cache.
Hits == {r \in ReqIds : req[r].pc = "done" /\ req[r].hit}

\* C19: the response of a cache hit is the response of the miss that wrote
\* the entry: status 200, the same bytes, the same Content-Type (the
\* gateway's, or application/octet-stream when it gave none) and the
\* cross-origin header.
C19_HitEqualsMiss ==
  \A r \in Hits :
    /\ req[r].seenWriter \in ReqIds
    /\ LET w == req[r].seenWriter
       IN /\ Populated(w)
          /\ req[w].cid = req[r].cid
          /\ req[r].res = req[w].res
          /\ req[r].res.status = 200
          /\ req[r].res.data = pinned[GatewayPath(req[r].cid)].data
          /\ req[r].res.headers =
               {CorsHeader,
                <<"Content-Type", ContentTypeOrDefault(req[w].ctype)>>}

\* A hit for content the gateway gave no type for, after a miss for content
\* it gave a type for.
C19_Witness ==
  \E r \in Hits, q \in ReqIds :
    /\ req[req[r].seenWriter].ctype = ""
    /\ <<"Content-Type", "application/octet-stream">> \in req[r].res.headers
    /\ req[r].res.data = <<3>>
    /\ Populated(q)
    /\ <<"Content-Type", "video/mp4">> \in req[q].res.headers

-----------------------------------------------------------------------------
(* Properties of the page across interleaved flows *)

\* The failure text followed by n marks of a loaded video.
RECURSIVE FailedThenLoaded(_)
FailedThenLoaded(n) ==
  IF n = 0 THEN FAIL_TEXT ELSE FailedThenLoaded(n - 1) \o " | Video loaded!"

\* The message contains the failure text.
ShowsFailure == \E n \in 0..MaxClicks : ui.message = FailedThenLoaded(n)

\* C20 as stated: the video container is visible only when the message does
\* not show the failure text, and a message that ends in "Video loaded!" does
\* not contain the failure text.
C20_UiConsistent ==
  /\ ui.containerDisplay = "block" => ~ShowsFailure
  /\ \A n \in 1..MaxClicks : ui.message # FailedThenLoaded(n)

====
